---- MODULE Spec2Model ----
(***************************************************************************)
(* Scheduled file delivery (time-sender-hub).                              *)
(*                                                                         *)
(* The model covers the scheduled_files table, the send-scheduled-file     *)
(* edge function (processScheduledFiles: list due rows, claim, send the    *)
(* e-mail, record the outcome), the cron-scheduler edge function, and the  *)
(* client operations of fileService.ts that write the table (scheduleFile, *)
(* updateScheduledFile, deleteScheduledFile, getFileByToken,               *)
(* triggerFileSending).  Every awaited database or Resend call is one      *)
(* step, so that concurrent invocations interleave at the awaits.          *)
(***************************************************************************)
EXTENDS Integers, Sequences, FiniteSets, TLC

\* ---------------------------------------------------------------- bounds
NumItems == 2
NumSweeps == 2
MaxTime == 1
MaxLoad == 3
MaxOps == 1
MaxErrors == 1
MaxUrlLen == 4
MaxTokenLen == 2
MaxFetches == 3

Ids == 1..NumItems
Sweeps == 1..NumSweeps
Times == 0..MaxTime
Recipients == {"a@x", "b@x"}

\* ------------------------------------------------------- values of fields
NoTime == -1
NoText == ""
EmailId == "eid"

MsgApi == "error.message"
MsgFreeTier == "Resend free tier limitation: Can only send to verified email addresses."
MsgDelivered == "Email delivered, but Resend reported a free tier limitation."
MsgNoKey == "Resend API key is missing."

VARIABLES
    store,            \* the scheduled_files table: id -> row, for the rows that exist
    nextId,           \* the next row id an insert gets
    now,              \* the wall clock
    RESEND_API_KEY,   \* whether the Resend key is configured
    APP_URL,          \* the configured public base URL, as a sequence of characters
    accessUrl,        \* the access URL generateAccessUrl returned last
    sw,               \* the running invocations of processScheduledFiles
    page,             \* the access page's getFileByToken in progress
    ops,              \* the client and trigger operations started so far
    errs,             \* the store operations that returned an error so far
    lastDelete,       \* how the last deleteScheduledFile ended
    cron,             \* the run of cron-scheduler's own processScheduledFiles
    claims,           \* history: per id, the claim updates that matched a row
    calls,            \* history: per id, the Notifier (sendEmail) invocations
    dash              \* the state, refs and timers of a mounted Dashboard

vars == <<store, nextId, now, RESEND_API_KEY, APP_URL, accessUrl, sw, page, ops, errs,
          lastDelete, cron, claims, calls, dash>>

\* -------------------------------------------------------------- the table
\* scheduleFile: the row an insert creates
NewRow(id, recipient, date) ==
    [ recipient_email |-> recipient,
      scheduled_date  |-> date,
      access_token    |-> id,
      status          |-> "pending",
      error_message   |-> NoText,
      sent_at         |-> NoTime,
      email_id        |-> NoText ]

\* the select without its .eq on status
ListDue_AnyStatus(st, t) == { i \in DOMAIN st : st[i].scheduled_date <= t }

\* the select without its .lte on scheduled_date
ListDue_AllPending(st, t) == { i \in DOMAIN st : st[i].status = "pending" }

\* the select with .lt in place of .lte
ListDue_Before(st, t) ==
    { i \in DOMAIN st : st[i].status = "pending" /\ st[i].scheduled_date < t }

\* .eq("status","pending").lte("scheduled_date", currentUtcTime)
ListDue(st, t) ==
    { i \in DOMAIN st : st[i].status = "pending" /\ st[i].scheduled_date <= t }

\* the claim without its status guard
TryClaim_NoGuard(st, id, t) ==
    IF id \in DOMAIN st
    THEN [ store |-> [st EXCEPT ![id].status = "processing"], rows |-> 1 ]
    ELSE [ store |-> st, rows |-> 0 ]

\* the claim guarded against terminal rows only
TryClaim_NotTerminal(st, id, t) ==
    IF id \in DOMAIN st /\ st[id].status \notin {"sent", "failed"}
    THEN [ store |-> [st EXCEPT ![id].status = "processing"], rows |-> 1 ]
    ELSE [ store |-> st, rows |-> 0 ]

\* .update({status:"processing", updated_at}).eq("id", id).eq("status","pending")
TryClaim(st, id, t) ==
    IF id \in DOMAIN st /\ st[id].status = "pending"
    THEN [ store |-> [st EXCEPT ![id].status = "processing"],
           rows  |-> 1 ]
    ELSE [ store |-> st, rows |-> 0 ]

\* ------------------------------------------------- the Notifier's answers
\* sendEmail returns {data, error}: error says whether error is set, id whether
\* data.id is set, freeTier whether the error is a 403 whose message has
\* "can only send" or "unverified"
EmailResults ==
    { [error |-> FALSE, id |-> TRUE,  freeTier |-> FALSE],
      [error |-> FALSE, id |-> FALSE, freeTier |-> FALSE],
      [error |-> TRUE,  id |-> TRUE,  freeTier |-> TRUE],
      [error |-> TRUE,  id |-> TRUE,  freeTier |-> FALSE],
      [error |-> TRUE,  id |-> FALSE, freeTier |-> TRUE],
      [error |-> TRUE,  id |-> FALSE, freeTier |-> FALSE] }

\* emailResult before sendEmail has returned
NoResult == [error |-> FALSE, id |-> FALSE, freeTier |-> FALSE]

\* the error branch with the test of data.id inverted
ErrorStatus_Inverted(e) == IF e.id THEN "failed" ELSE "sent"

\* the status the error branch determines
ErrorStatus(e) == IF e.id THEN "sent" ELSE "failed"

\* the errorMessage the error branch determines
ErrorMessage(e) ==
    IF e.freeTier
    THEN (IF ~e.id THEN MsgFreeTier ELSE MsgDelivered)
    ELSE MsgApi

\* the error branch recording the message without the status
UpdateOutcome_MessageOnly(st, id, e, t) ==
    IF id \in DOMAIN st
    THEN [st EXCEPT ![id] = [@ EXCEPT !.error_message = ErrorMessage(e)]]
    ELSE st

\* the update of the error branch, by id alone
UpdateOutcome(st, id, e, t) ==
    IF id \in DOMAIN st
    THEN [st EXCEPT ![id] =
            [@ EXCEPT !.status = ErrorStatus(e),
                      !.error_message = ErrorMessage(e),
                      !.sent_at = IF ErrorStatus(e) = "sent" THEN t ELSE @,
                      !.email_id = IF e.id THEN EmailId ELSE @]]
    ELSE st

\* the update of the success branch, by id alone
UpdateSent(st, id, e, t) ==
    IF id \in DOMAIN st
    THEN [st EXCEPT ![id] =
            [@ EXCEPT !.status = "sent",
                      !.sent_at = t,
                      !.email_id = IF e.id THEN EmailId ELSE @]]
    ELSE st

\* the catch block recording the message without the status
UpdateFailed_MessageOnly(st, id, msg, t) ==
    IF id \in DOMAIN st
    THEN [st EXCEPT ![id] = [@ EXCEPT !.error_message = msg]]
    ELSE st

\* the update of the catch block, by id alone
UpdateFailed(st, id, msg, t) ==
    IF id \in DOMAIN st
    THEN [st EXCEPT ![id] =
            [@ EXCEPT !.status = "failed",
                      !.error_message = msg]]
    ELSE st

\* getFileByToken's update, by id alone
UpdateAccessed(st, id, t) ==
    IF id \in DOMAIN st
    THEN [st EXCEPT ![id] = [@ EXCEPT !.status = "sent", !.sent_at = t]]
    ELSE st

\* the update issuing a new access_token with the new schedule
UpdateSchedule_NewToken(st, id, recipient, date, t) ==
    IF id \in DOMAIN st
    THEN [st EXCEPT ![id] =
            [@ EXCEPT !.recipient_email = recipient,
                      !.scheduled_date = date,
                      !.access_token = id + NumItems]]
    ELSE st

\* updateScheduledFile's update, by id alone
UpdateSchedule(st, id, recipient, date, t) ==
    IF id \in DOMAIN st
    THEN [st EXCEPT ![id] =
            [@ EXCEPT !.recipient_email = recipient,
                      !.scheduled_date = date]]
    ELSE st

\* .delete().eq("id", id)
DeleteById(st, id) == [i \in DOMAIN st \ {id} |-> st[i]]

\* .insert(row)
Insert(st, id, row) == [i \in DOMAIN st \cup {id} |-> IF i = id THEN row ELSE st[i]]

\* deleteScheduledFile has not been called
NoDelete == [id |-> 0, error |-> FALSE]

\* .select("storage_path").eq("id", id).single() returns an error unless
\* exactly one row matches
SelectSingle(st, id) == [error |-> id \notin DOMAIN st]

\* cron-scheduler's own processScheduledFiles: the files whose processFile
\* is before sendEmail, and those before updateFileStatus after sendEmail
\* returned true (sent) or false (failed)
IdleCron == [pc |-> "idle", send |-> {}, sent |-> {}, failed |-> {}]

\* updateFileStatus: .update({ status }).eq("id", fileId)
UpdateFileStatus(st, id, status) ==
    IF id \in DOMAIN st THEN [st EXCEPT ![id].status = status] ELSE st

\* ------------------------------------------------------- the access URL
\* the characters of a URL: a letter, the slash, and the path word access
Slash == "/"
Access == "access"

\* the sequences over S of length lo to hi
Strings(S, lo, hi) == UNION { [1..n -> S] : n \in lo..hi }

\* the values APP_URL may be configured with (never empty: the code falls
\* back to its default), and the access tokens
Bases == Strings({"a", Slash}, 1, MaxUrlLen)
Tokens == Strings({"t"}, 1, MaxTokenLen)

\* the default of APP_URL, which has no trailing slash
DefaultUrl == <<"a">>

\* generateAccessUrl: APP_URL.endsWith('/') ? APP_URL.slice(0, -1) : APP_URL,
\* then `${baseUrl}/access/${accessToken}`
generateAccessUrl(base, accessToken) ==
    LET baseUrl == IF Len(base) > 0 /\ base[Len(base)] = Slash
                   THEN SubSeq(base, 1, Len(base) - 1)
                   ELSE base
    IN baseUrl \o <<Slash, Access, Slash>> \o accessToken

\* ------------------------------------------------ one sweep invocation
IdleSweep ==
    [ pc             |-> "idle",
      files          |-> <<>>,      \* scheduledFiles as the select returned them
      idx            |-> 0,         \* position of the for loop
      successCount   |-> 0,
      failedCount    |-> 0,
      processedCount |-> 0,
      emailResult    |-> NoResult,
      claimed        |-> FALSE,     \* history: the claim of the current file matched a row
      storeErr       |-> FALSE ]    \* history: a store operation of the sweep returned an error

\* the orders in which a select without ORDER BY may return a set of rows
Orders(S) ==
    { f \in [1..Cardinality(S) -> S] : \A a, b \in 1..Cardinality(S) : f[a] = f[b] => a = b }

\* the row data the for loop keeps of a listed file
Snapshot(st, id) ==
    [ id |-> id,
      recipient_email |-> st[id].recipient_email,
      access_token |-> st[id].access_token ]

\* the file the for loop is at
Current(s) == sw[s].files[sw[s].idx]

\* the loop left at the first file that failed
Advance_BreakOnFailure(r) ==
    IF r.idx < Len(r.files) /\ r.failedCount = 0
    THEN [r EXCEPT !.idx = @ + 1, !.pc = "claim",
                   !.emailResult = NoResult, !.claimed = FALSE]
    ELSE [r EXCEPT !.idx = 0, !.pc = "return",
                   !.emailResult = NoResult, !.claimed = FALSE]

\* end of the loop body: the next file, or the end of the loop
Advance(r) ==
    IF r.idx < Len(r.files)
    THEN [r EXCEPT !.idx = @ + 1, !.pc = "claim",
                   !.emailResult = NoResult, !.claimed = FALSE]
    ELSE [r EXCEPT !.idx = 0, !.pc = "return",
                   !.emailResult = NoResult, !.claimed = FALSE]

\* ------------------------------------------------------------------ Init
\* ------------------------------------------------------- the Dashboard
\* no timer is set
NoTimer == [set |-> FALSE, files |-> {}, initialLoadComplete |-> FALSE]

\* a timer whose callback is the checkAndTriggerPendingFiles of the render
\* that set it: it holds the files and initialLoadComplete of that render
Closure(d) ==
    [set |-> TRUE, files |-> d.files, initialLoadComplete |-> d.initialLoadComplete]

\* the Dashboard as it is mounted: useState and useRef initial values, no
\* user yet; fetches counts the fetchFiles calls running or on a setTimeout,
\* manual is the position of handleManualTrigger
InitDash ==
    [ user                |-> FALSE,
      isLoading           |-> TRUE,
      initialLoadComplete |-> FALSE,
      hasUserChecked      |-> FALSE,
      files               |-> {},
      interval            |-> NoTimer,
      timer               |-> NoTimer,
      fetches             |-> 0,
      manual              |-> "idle" ]

\* getScheduledFiles: the rows mapped to FileItems; on a select error the
\* error is caught and the list is empty
FileItems(st, error) ==
    IF error THEN {}
    ELSE { [id |-> i, status |-> st[i].status, scheduledDate |-> st[i].scheduled_date] :
             i \in DOMAIN st }

\* the filter of checkAndTriggerPendingFiles
pendingPastDue(files, t) ==
    { file \in files : file.status = "pending" /\ file.scheduledDate <= t }

\* the commit of a render: d0 is the Dashboard before the state updates, d
\* after them, filesSet whether setFiles was called (a new array). The
\* cleanups of the effects whose dependencies changed run first (the main
\* effect's clears the interval, the second effect's clears the initial
\* check timer), then their bodies: the main effect calls fetchFiles while
\* loading; the second sets the initial check timer and, only when
\* refreshIntervalRef is null, the interval
Commit(d0, d, filesSet) ==
    LET main   == d.user # d0.user \/ d.isLoading # d0.isLoading
        second == \/ d.user # d0.user
                  \/ filesSet
                  \/ d.initialLoadComplete # d0.initialLoadComplete
        c1 == IF main THEN [d EXCEPT !.interval = NoTimer] ELSE d
        c2 == IF second THEN [c1 EXCEPT !.timer = NoTimer] ELSE c1
        b1 == IF main /\ c2.isLoading /\ c2.user
              THEN [c2 EXCEPT !.fetches = @ + 1, !.hasUserChecked = TRUE]
              ELSE c2
        b2 == IF second /\ b1.user
              THEN [b1 EXCEPT !.timer = Closure(d),
                              !.interval = IF @.set THEN @ ELSE Closure(d)]
              ELSE b1
    IN  IF main /\ ~d.isLoading /\ ~d.hasUserChecked /\ d.user
        THEN \* setIsLoading(true) in the main effect: one more render, whose
             \* main effect clears the interval and calls fetchFiles
             [b2 EXCEPT !.isLoading = TRUE, !.interval = NoTimer,
                        !.fetches = @ + 1, !.hasUserChecked = TRUE]
        ELSE b2

Init ==
    /\ store = << >>
    /\ nextId = 1
    /\ now = 0
    /\ RESEND_API_KEY \in BOOLEAN
    /\ APP_URL = DefaultUrl
    /\ accessUrl = << >>
    /\ sw = [s \in Sweeps |-> IdleSweep]
    /\ page = [pc |-> "idle", id |-> 0]
    /\ ops = 0
    /\ errs = 0
    /\ lastDelete = NoDelete
    /\ cron = IdleCron
    /\ claims = [i \in Ids |-> 0]
    /\ calls = [i \in Ids |-> 0]
    /\ dash = InitDash

\* the rows created and the sweeps invoked so far
Load ==
    (nextId - 1) + Cardinality({s \in Sweeps : sw[s].pc # "idle"})
                 + (IF cron.pc # "idle" THEN 1 ELSE 0)

\* one more edit, deletion or opening of an access link
Operation == ops < MaxOps /\ ops' = ops + 1

\* a store operation returns an error
StoreError == errs < MaxErrors /\ errs' = errs + 1

\* time passes
Tick ==
    /\ now < MaxTime
    /\ now' = now + 1
    /\ UNCHANGED <<store, nextId, RESEND_API_KEY, dash, APP_URL, accessUrl, lastDelete, cron, sw, page, ops, errs, claims, calls>>

\* ------------------------------------------------------- trigger surface
\* serve of send-scheduled-file: a POST starts processScheduledFiles in an
\* invocation s
Started(s) == [sw EXCEPT ![s] = [IdleSweep EXCEPT !.pc = "select"]]

\* cron-scheduler: POSTs to send-scheduled-file
cronScheduler(s) ==
    /\ Load < MaxLoad
    /\ sw[s].pc = "idle"
    /\ sw' = Started(s)
    /\ UNCHANGED <<store, nextId, now, RESEND_API_KEY, dash, APP_URL, accessUrl, lastDelete, cron, page, ops, errs, claims, calls>>

\* triggerFileSending (the manual trigger): POSTs to send-scheduled-file
triggerFileSending(s) ==
    /\ Load < MaxLoad
    /\ sw[s].pc = "idle"
    /\ sw' = Started(s)
    /\ UNCHANGED <<store, nextId, now, RESEND_API_KEY, dash, APP_URL, accessUrl, lastDelete, cron, page, ops, errs, claims, calls>>

\* the client operations call triggerFileSending when their date is due
TriggerIfDue(date) ==
    IF date <= now
    THEN /\ Load < MaxLoad
         /\ \E s \in Sweeps : sw[s].pc = "idle" /\ sw' = Started(s)
    ELSE UNCHANGED sw

\* scheduleFile: insert a pending row, trigger a sweep when it is already due
scheduleFile(recipient, date) ==
    /\ Load + (IF date <= now THEN 1 ELSE 0) < MaxLoad
    /\ nextId \in Ids
    /\ store' = Insert(store, nextId, NewRow(nextId, recipient, date))
    /\ nextId' = nextId + 1
    /\ TriggerIfDue(date)
    /\ UNCHANGED <<now, RESEND_API_KEY, dash, APP_URL, accessUrl, lastDelete, cron, page, ops, errs, claims, calls>>

\* updateScheduledFile: update by id, trigger a sweep when the new date is due
updateScheduledFile(id, recipient, date) ==
    /\ Operation
    /\ id \in DOMAIN store
    /\ store' = UpdateSchedule(store, id, recipient, date, now)
    /\ TriggerIfDue(date)
    /\ UNCHANGED <<nextId, now, RESEND_API_KEY, dash, APP_URL, accessUrl, lastDelete, cron, page, errs, claims, calls>>

\* deleteScheduledFile, called with the id of a row that was inserted at
\* some time: the select of storage_path, whose error is thrown to the
\* caller; then the row is deleted by id
deleteScheduledFile(id) ==
    /\ id < nextId
    /\ IF SelectSingle(store, id).error
       THEN /\ lastDelete' = [id |-> id, error |-> TRUE]
            /\ UNCHANGED <<store, ops>>
       ELSE /\ Operation
            /\ store' = DeleteById(store, id)
            /\ lastDelete' = [id |-> id, error |-> FALSE]
    /\ UNCHANGED <<nextId, now, RESEND_API_KEY, dash, APP_URL, accessUrl, cron, sw, page, errs, claims, calls>>

\* getFileByToken, the select by access_token; only a row read as pending
\* leads to a write
getFileByToken_select(token) ==
    /\ Operation
    /\ page.pc = "idle"
    /\ \E i \in DOMAIN store :
         /\ store[i].access_token = token
         /\ store[i].status = "pending"
         /\ page' = [pc |-> "update", id |-> i]
    /\ UNCHANGED <<store, nextId, now, RESEND_API_KEY, dash, APP_URL, accessUrl, lastDelete, cron, sw, errs, claims, calls>>

\* getFileByToken, the update to sent
getFileByToken_update ==
    /\ page.pc = "update"
    /\ \/ store' = UpdateAccessed(store, page.id, now) /\ UNCHANGED errs
       \/ StoreError /\ UNCHANGED store                      \* updateError
    /\ page' = [pc |-> "idle", id |-> 0]
    /\ UNCHANGED <<nextId, now, RESEND_API_KEY, dash, APP_URL, accessUrl, lastDelete, cron, sw, ops, claims, calls>>

\* ------------------------------------------------- send-scheduled-file
\* currentUtcTime is read and the select of the due rows is issued with it;
\* the two early returns
processScheduledFiles_select(s) ==
    /\ sw[s].pc = "select"
    /\ \/ /\ StoreError                                       \* selectError
          /\ sw' = [sw EXCEPT ![s].pc = "done", ![s].storeErr = TRUE]
       \/ /\ UNCHANGED errs
          /\ LET due == ListDue(store, now) IN
               IF due = {}
               THEN sw' = [sw EXCEPT ![s].pc = "done"]
               ELSE \E o \in Orders(due) :
                      sw' = [sw EXCEPT ![s] =
                               [@ EXCEPT !.pc = "claim",
                                         !.files = [k \in 1..Cardinality(due) |-> Snapshot(store, o[k])],
                                         !.idx = 1,
                                         !.processedCount = Cardinality(due)]]
    /\ UNCHANGED <<store, nextId, now, RESEND_API_KEY, dash, APP_URL, accessUrl, lastDelete, cron, page, ops, claims, calls>>

\* after the claim: without the API key the loop body throws into its catch
AfterClaim(r, matched, err) ==
    IF RESEND_API_KEY
    THEN [r EXCEPT !.pc = "send", !.claimed = matched, !.storeErr = @ \/ err]
    ELSE [r EXCEPT !.pc = "catch", !.claimed = matched, !.storeErr = @ \/ err,
                   !.failedCount = @ + 1]

\* the update to processing; its error is logged and the loop body goes on
processScheduledFiles_claim(s) ==
    /\ sw[s].pc = "claim"
    /\ \/ /\ StoreError                                       \* updateProcessingError
          /\ UNCHANGED <<store, claims>>
          /\ sw' = [sw EXCEPT ![s] = AfterClaim(@, FALSE, TRUE)]
       \/ LET c == TryClaim(store, Current(s).id, now) IN
            /\ UNCHANGED errs
            /\ store' = c.store
            /\ claims' = [claims EXCEPT ![Current(s).id] = @ + c.rows]
            /\ sw' = [sw EXCEPT ![s] = AfterClaim(@, c.rows = 1, FALSE)]
    /\ UNCHANGED <<nextId, now, RESEND_API_KEY, dash, APP_URL, accessUrl, lastDelete, cron, page, ops, calls>>

\* the to of the sendEmail call: file.recipient_email, of the listed file
To(s) == Current(s).recipient_email

\* sendEmail to file.recipient_email
processScheduledFiles_sendEmail(s) ==
    /\ sw[s].pc = "send"
    /\ \E e \in EmailResults :
         sw' = [sw EXCEPT ![s].pc = "update", ![s].emailResult = e]
    /\ calls' = [calls EXCEPT ![Current(s).id] = @ + 1]
    /\ UNCHANGED <<store, nextId, now, RESEND_API_KEY, dash, APP_URL, accessUrl, lastDelete, cron, page, ops, errs, claims>>

\* the counting of the two branches after sendEmail
Counted(r, e, updateError) ==
    IF e.error
    THEN (IF ErrorStatus(e) = "sent"
          THEN [r EXCEPT !.successCount = @ + 1, !.storeErr = @ \/ updateError]
          ELSE [r EXCEPT !.failedCount = @ + 1, !.storeErr = @ \/ updateError])
    ELSE (IF updateError
          THEN [r EXCEPT !.failedCount = @ + 1, !.storeErr = TRUE]
          ELSE [r EXCEPT !.successCount = @ + 1])

\* the update that records the outcome of sendEmail
UpdateResult(st, id, e, t) ==
    IF e.error THEN UpdateOutcome(st, id, e, t) ELSE UpdateSent(st, id, e, t)

\* the update that records the outcome, and the counting
processScheduledFiles_update(s) ==
    /\ sw[s].pc = "update"
    /\ \/ /\ UNCHANGED errs
          /\ store' = UpdateResult(store, Current(s).id, sw[s].emailResult, now)
          /\ sw' = [sw EXCEPT ![s] = Advance(Counted(@, sw[s].emailResult, FALSE))]
       \/ /\ StoreError                                       \* updateError
          /\ UNCHANGED store
          /\ sw' = [sw EXCEPT ![s] = Advance(Counted(@, sw[s].emailResult, TRUE))]
    /\ UNCHANGED <<nextId, now, RESEND_API_KEY, dash, APP_URL, accessUrl, lastDelete, cron, page, ops, claims, calls>>

\* the catch block of the loop body: the update to failed
processScheduledFiles_catch(s) ==
    /\ sw[s].pc = "catch"
    /\ \/ /\ UNCHANGED errs
          /\ store' = UpdateFailed(store, Current(s).id, MsgNoKey, now)
          /\ sw' = [sw EXCEPT ![s] = Advance(@)]
       \/ /\ StoreError                                       \* updateError
          /\ UNCHANGED store
          /\ sw' = [sw EXCEPT ![s] = Advance([@ EXCEPT !.storeErr = TRUE])]
    /\ UNCHANGED <<nextId, now, RESEND_API_KEY, dash, APP_URL, accessUrl, lastDelete, cron, page, ops, claims, calls>>

\* the return of the counts
processScheduledFiles_return(s) ==
    /\ sw[s].pc = "return"
    /\ sw' = [sw EXCEPT ![s].pc = "done"]
    /\ UNCHANGED <<store, nextId, now, RESEND_API_KEY, dash, APP_URL, accessUrl, lastDelete, cron, page, ops, errs, claims, calls>>

\* serve: the response to the caller, the counts as JSON with status 200
\* (processScheduledFiles catches its errors and does not throw)
Response(r) ==
    [ status    |-> 200,
      success   |-> r.successCount,
      failed    |-> r.failedCount,
      processed |-> r.processedCount ]

Next ==
    \/ Tick
    \/ \E s \in Sweeps : cronScheduler(s)
    \/ \E s \in Sweeps : triggerFileSending(s)
    \/ \E r \in Recipients, d \in Times : scheduleFile(r, d)
    \/ \E i \in Ids, r \in Recipients, d \in Times : updateScheduledFile(i, r, d)
    \/ \E i \in Ids : deleteScheduledFile(i)
    \/ \E t \in Ids : getFileByToken_select(t)
    \/ getFileByToken_update
    \/ \E s \in Sweeps : processScheduledFiles_select(s)
    \/ \E s \in Sweeps : processScheduledFiles_claim(s)
    \/ \E s \in Sweeps : processScheduledFiles_sendEmail(s)
    \/ \E s \in Sweeps : processScheduledFiles_update(s)
    \/ \E s \in Sweeps : processScheduledFiles_catch(s)
    \/ \E s \in Sweeps : processScheduledFiles_return(s)

Spec == Init /\ [][Next]_vars

\* ------------------------------------------- sweeps called in succession
\* no sweep has been called yet
Quiet == \A s \in Sweeps : sw[s].pc = "idle"

\* sweep s is called when the sweeps before it have returned and none after
\* it has been called
InSuccession(s) ==
    /\ \A t \in Sweeps : t < s => sw[t].pc = "done"
    /\ \A t \in Sweeps : t > s => sw[t].pc = "idle"

\* the sweep is called again and again, each call after the one before has
\* returned; rows are created and edited and time passes only before the
\* first call, so that nothing is created, edited or newly due between calls
NextTwice ==
    \/ Quiet /\ Tick
    \/ Quiet /\ \E r \in Recipients, d \in Times : scheduleFile(r, d)
    \/ Quiet /\ \E i \in Ids, r \in Recipients, d \in Times : updateScheduledFile(i, r, d)
    \/ \E s \in Sweeps : InSuccession(s) /\ cronScheduler(s)
    \/ \E s \in Sweeps : InSuccession(s) /\ triggerFileSending(s)
    \/ \E i \in Ids : deleteScheduledFile(i)
    \/ \E t \in Ids : getFileByToken_select(t)
    \/ getFileByToken_update
    \/ \E s \in Sweeps : processScheduledFiles_select(s)
    \/ \E s \in Sweeps : processScheduledFiles_claim(s)
    \/ \E s \in Sweeps : processScheduledFiles_sendEmail(s)
    \/ \E s \in Sweeps : processScheduledFiles_update(s)
    \/ \E s \in Sweeps : processScheduledFiles_catch(s)
    \/ \E s \in Sweeps : processScheduledFiles_return(s)

SpecTwice == Init /\ [][NextTwice]_vars

\* ------------------------- cron-scheduler's own processScheduledFiles
\* handleRequest: a request starts cron-scheduler's processScheduledFiles
handleRequest ==
    /\ Load < MaxLoad
    /\ cron.pc = "idle"
    /\ cron' = [cron EXCEPT !.pc = "select"]
    /\ UNCHANGED <<store, nextId, now, RESEND_API_KEY, dash, APP_URL, accessUrl, sw, page, ops, errs,
                   lastDelete, claims, calls>>

\* getScheduledFiles: the pending rows whose scheduled_date is not later
\* than now; its error is thrown; Promise.all then starts processFile for
\* every file
getScheduledFiles ==
    /\ cron.pc = "select"
    /\ \/ /\ StoreError
          /\ cron' = [cron EXCEPT !.pc = "done"]
       \/ /\ UNCHANGED errs
          /\ cron' = IF ListDue(store, now) = {}
                     THEN [cron EXCEPT !.pc = "done"]
                     ELSE [cron EXCEPT !.pc = "run", !.send = ListDue(store, now)]
    /\ UNCHANGED <<store, nextId, now, RESEND_API_KEY, dash, APP_URL, accessUrl, sw, page, ops,
                   lastDelete, claims, calls>>

\* processFile up to the return of sendEmail, which answers false without
\* calling Resend when the key is missing
processFile_sendEmail(i) ==
    /\ cron.pc = "run"
    /\ i \in cron.send
    /\ IF RESEND_API_KEY
       THEN /\ calls' = [calls EXCEPT ![i] = @ + 1]
            /\ \/ cron' = [cron EXCEPT !.send = @ \ {i}, !.sent = @ \cup {i}]
               \/ cron' = [cron EXCEPT !.send = @ \ {i}, !.failed = @ \cup {i}]
       ELSE /\ UNCHANGED calls
            /\ cron' = [cron EXCEPT !.send = @ \ {i}, !.failed = @ \cup {i}]
    /\ UNCHANGED <<store, nextId, now, RESEND_API_KEY, dash, APP_URL, accessUrl, sw, page, ops, errs,
                   lastDelete, claims>>

\* the files of the run that are left once processFile of i has returned
Remaining(c, i) ==
    [c EXCEPT !.sent = @ \ {i}, !.failed = @ \ {i},
              !.pc = IF (c.send \cup c.sent \cup c.failed) \ {i} = {}
                     THEN "done" ELSE "run"]

\* processFile after sendEmail: updateFileStatus to sent or to failed, by id
\* alone; its error is logged
processFile_updateFileStatus(i) ==
    /\ cron.pc = "run"
    /\ i \in cron.sent \cup cron.failed
    /\ \/ /\ UNCHANGED errs
          /\ store' = UpdateFileStatus(store, i,
                         IF i \in cron.sent THEN "sent" ELSE "failed")
       \/ /\ StoreError
          /\ UNCHANGED store
    /\ cron' = Remaining(cron, i)
    /\ UNCHANGED <<nextId, now, RESEND_API_KEY, dash, APP_URL, accessUrl, sw, page, ops,
                   lastDelete, claims, calls>>

\* the trigger paths: the timer's cron-scheduler in its two forms, the manual
\* trigger, and scheduling or editing with a due date
NextCron ==
    \/ Tick
    \/ \E s \in Sweeps : cronScheduler(s)
    \/ \E s \in Sweeps : triggerFileSending(s)
    \/ \E r \in Recipients, d \in Times : scheduleFile(r, d)
    \/ \E i \in Ids, r \in Recipients, d \in Times : updateScheduledFile(i, r, d)
    \/ handleRequest
    \/ getScheduledFiles
    \/ \E i \in Ids : processFile_sendEmail(i)
    \/ \E i \in Ids : processFile_updateFileStatus(i)
    \/ \E s \in Sweeps : processScheduledFiles_select(s)
    \/ \E s \in Sweeps : processScheduledFiles_claim(s)
    \/ \E s \in Sweeps : processScheduledFiles_sendEmail(s)
    \/ \E s \in Sweeps : processScheduledFiles_update(s)
    \/ \E s \in Sweeps : processScheduledFiles_catch(s)
    \/ \E s \in Sweeps : processScheduledFiles_return(s)

SpecCron == Init /\ [][NextCron]_vars

\* ------------------------------------- the access URL over base URLs
\* the function starts with any configured APP_URL
InitUrl ==
    /\ store = << >>
    /\ nextId = 1
    /\ now = 0
    /\ RESEND_API_KEY \in BOOLEAN
    /\ APP_URL \in Bases
    /\ accessUrl = << >>
    /\ sw = [s \in Sweeps |-> IdleSweep]
    /\ page = [pc |-> "idle", id |-> 0]
    /\ ops = 0
    /\ errs = 0
    /\ lastDelete = NoDelete
    /\ cron = IdleCron
    /\ claims = [i \in Ids |-> 0]
    /\ calls = [i \in Ids |-> 0]
    /\ dash = InitDash

\* the loop body builds the access URL of a file from its access_token
buildAccessUrl(accessToken) ==
    /\ accessUrl' = generateAccessUrl(APP_URL, accessToken)
    /\ UNCHANGED <<store, nextId, now, RESEND_API_KEY, dash, APP_URL, sw, page, ops,
                   errs, lastDelete, cron, claims, calls>>

NextUrl == \E t \in Tokens : buildAccessUrl(t)

SpecUrl == InitUrl /\ [][NextUrl]_vars

\* -------------------------------------------- the Dashboard's periodic check
\* the calls of triggerFileSending made by the Dashboard: a POST that starts
\* a sweep
Trigger ==
    /\ Load < MaxLoad
    /\ \E s \in Sweeps : sw[s].pc = "idle" /\ sw' = Started(s)

\* checkAndTriggerPendingFiles as the callback of timer cl: it returns when
\* its initialLoadComplete is false; when its files hold a pending item past
\* due it calls triggerFileSending, which dispatches refresh-file-list
\* (handleRefresh: fetchFiles), and sets a timeout for fetchFiles
checkAndTriggerPendingFiles(cl, d) ==
    IF cl.initialLoadComplete /\ pendingPastDue(cl.files, now) # {}
    THEN /\ Trigger
         /\ d.fetches + 2 <= MaxFetches
         /\ dash' = [d EXCEPT !.fetches = @ + 2]
    ELSE /\ dash' = d
         /\ UNCHANGED sw

\* useAuth delivers the signed-in user
signIn ==
    /\ ~dash.user
    /\ dash' = Commit(dash, [dash EXCEPT !.user = TRUE], FALSE)
    /\ dash'.fetches <= MaxFetches
    /\ UNCHANGED <<store, nextId, now, RESEND_API_KEY, APP_URL, accessUrl, lastDelete, cron, sw, page, ops, errs, claims, calls>>

\* a fetchFiles call ends: setFiles, setInitialLoadComplete(true) and
\* setIsLoading(false)
fetchFiles ==
    /\ dash.user
    /\ dash.fetches > 0
    /\ \E error \in BOOLEAN :
         /\ IF error THEN StoreError ELSE UNCHANGED errs
         /\ dash' = Commit(dash,
                           [dash EXCEPT !.fetches = @ - 1,
                                        !.files = FileItems(store, error),
                                        !.initialLoadComplete = TRUE,
                                        !.isLoading = FALSE],
                           TRUE)
    /\ UNCHANGED <<store, nextId, now, RESEND_API_KEY, APP_URL, accessUrl, lastDelete, cron, sw, page, ops, claims, calls>>

\* handleRefresh and the realtime callback: fetchFiles
handleRefresh ==
    /\ dash.user
    /\ dash.fetches < MaxFetches
    /\ dash' = [dash EXCEPT !.fetches = @ + 1]
    /\ UNCHANGED <<store, nextId, now, RESEND_API_KEY, APP_URL, accessUrl, lastDelete, cron, sw, page, ops, errs, claims, calls>>

\* handleNewSchedule: scheduleFile, then a timeout for fetchFiles
handleNewSchedule(recipient, date) ==
    /\ dash.user
    /\ dash.fetches < MaxFetches
    /\ Load + (IF date <= now THEN 1 ELSE 0) < MaxLoad
    /\ nextId \in Ids
    /\ store' = Insert(store, nextId, NewRow(nextId, recipient, date))
    /\ nextId' = nextId + 1
    /\ TriggerIfDue(date)
    /\ dash' = [dash EXCEPT !.fetches = @ + 1]
    /\ UNCHANGED <<now, RESEND_API_KEY, APP_URL, accessUrl, lastDelete, cron, page, ops, errs, claims, calls>>

\* handleManualTrigger up to its await: setIsLoading(true) and the POST
handleManualTrigger ==
    /\ dash.user
    /\ dash.manual = "idle"
    /\ Trigger
    /\ dash' = Commit(dash, [dash EXCEPT !.isLoading = TRUE, !.manual = "await"], FALSE)
    /\ dash'.fetches <= MaxFetches
    /\ UNCHANGED <<store, nextId, now, RESEND_API_KEY, APP_URL, accessUrl, lastDelete, cron, page, ops, errs, claims, calls>>

\* handleManualTrigger after its await: triggerFileSending has dispatched
\* refresh-file-list, a timeout is set for fetchFiles, and the finally
\* block calls setIsLoading(false)
handleManualTrigger_finally ==
    /\ dash.manual = "await"
    /\ dash.fetches + 2 <= MaxFetches
    /\ dash' = Commit(dash,
                      [dash EXCEPT !.isLoading = FALSE, !.manual = "idle",
                                   !.fetches = @ + 2],
                      FALSE)
    /\ UNCHANGED <<store, nextId, now, RESEND_API_KEY, APP_URL, accessUrl, lastDelete, cron, sw, page, ops, errs, claims, calls>>

\* the initial check timer of the second effect fires
initialCheckTimer ==
    /\ dash.timer.set
    /\ checkAndTriggerPendingFiles(dash.timer, [dash EXCEPT !.timer = NoTimer])
    /\ UNCHANGED <<store, nextId, now, RESEND_API_KEY, APP_URL, accessUrl, lastDelete, cron, page, ops, errs, claims, calls>>

\* the interval of the second effect fires: one check period has passed
refreshInterval ==
    /\ dash.interval.set
    /\ checkAndTriggerPendingFiles(dash.interval, dash)
    /\ UNCHANGED <<store, nextId, now, RESEND_API_KEY, APP_URL, accessUrl, lastDelete, cron, page, ops, errs, claims, calls>>

NextDash ==
    \/ Tick
    \/ signIn
    \/ fetchFiles
    \/ handleRefresh
    \/ \E r \in Recipients, d \in Times : handleNewSchedule(r, d)
    \/ handleManualTrigger
    \/ handleManualTrigger_finally
    \/ initialCheckTimer
    \/ refreshInterval

SpecDash == Init /\ [][NextDash]_vars

\* ----------------------------------------------------------------------
\* Properties
\* ----------------------------------------------------------------------
Rows == DOMAIN store

\* the sweeps that have issued their claim on row i and are still on that row
PastClaim(s, i) ==
    /\ sw[s].pc \in {"send", "update", "catch"}
    /\ Current(s).id = i

\* the ids a finished sweep had listed
Listed(s) == { sw[s].files[k].id : k \in 1..Len(sw[s].files) }

\* a sweep still has row i ahead of it or in hand
Pending(s, i) ==
    /\ sw[s].pc \in {"claim", "send", "update", "catch"}
    /\ \E k \in sw[s].idx..Len(sw[s].files) : sw[s].files[k].id = i

\* no worker is in the middle of a transition on row i
Quiescent(i) ==
    /\ \A s \in Sweeps : ~Pending(s, i)
    /\ ~(page.pc = "update" /\ page.id = i)

\* C1: under any interleaving of concurrent sweeps the Notifier is invoked at
\* most once for each item (stated for the runs in which no store operation
\* returns an error, where it already fails)
C1_NotifierOncePerItem == errs = 0 => \A i \in Ids : calls[i] <= 1

\* C2: over the lifetime of an item at most one claim (the status-guarded
\* update from pending to processing) matches its row
C2_AtMostOneClaim == \A i \in Ids : claims[i] <= 1

\* two sweeps have both issued their claim on the same row without a store
\* error, and exactly one of them matched it
C2_TwoSweepsRaced ==
    \E i \in Ids : \E s1, s2 \in Sweeps :
        /\ s1 # s2
        /\ PastClaim(s1, i) /\ PastClaim(s2, i)
        /\ sw[s1].claimed /\ ~sw[s2].claimed /\ ~sw[s2].storeErr
        /\ claims[i] = 1

\* C3: a claim issued on a row whose status is processing, sent or failed
\* matches no row and leaves the whole table unchanged
C3_ClaimGuard ==
    [][\A s \in Sweeps :
         ( /\ sw[s].pc = "claim"
           /\ sw'[s].pc # "claim"
           /\ Current(s).id \in Rows
           /\ store[Current(s).id].status # "pending" )
         => (store' = store /\ ~sw'[s].claimed /\ claims' = claims)]_vars

\* a sweep has issued its claim, without a store error, on a row that was
\* already sent or failed, and goes on to the Notifier
C3_ClaimOnTerminal ==
    \E s \in Sweeps :
        /\ sw[s].pc = "send"
        /\ ~sw[s].claimed /\ ~sw[s].storeErr
        /\ Current(s).id \in Rows
        /\ store[Current(s).id].status \in {"sent", "failed"}
        /\ sw[s].idx = 1

\* C4: once a row is sent or failed its status never changes, and the
\* Notifier is not invoked again for a failed row
C4_TerminalIsFinal ==
    [][\A i \in Ids :
         (i \in Rows /\ i \in DOMAIN store' /\ store[i].status \in {"sent", "failed"})
         => /\ store'[i].status = store[i].status
            /\ (store[i].status = "failed" => calls'[i] = calls[i])]_vars

Delivery(e) == ~e.error \/ e.id

\* C6: a row becomes sent only in the step that records a delivery the
\* Notifier reported for that row
C6_SentOnlyByNotifier ==
    [][\A i \in Ids :
         ( /\ i \in Rows /\ i \in DOMAIN store'
           /\ store[i].status # "sent"
           /\ store'[i].status = "sent" )
         => \E s \in Sweeps :
              /\ sw[s].pc = "update"
              /\ Current(s).id = i
              /\ Delivery(sw[s].emailResult)
              /\ sw'[s].pc # "update"]_vars

\* the status changes of the state machine
Transitions ==
    { <<"pending", "processing">>, <<"processing", "sent">>,
      <<"processing", "failed">>, <<"pending", "failed">> }

\* C7: every status change of a row is a step of the state machine
\* pending -> processing -> sent | failed, or pending -> failed
C7_StateMachine ==
    [][\A i \in Ids :
         (i \in Rows /\ i \in DOMAIN store' /\ store'[i].status # store[i].status)
         => <<store[i].status, store'[i].status>> \in Transitions]_vars

\* C8: at every Notifier invocation for a row, the scheduled_date the row
\* holds at that moment is not later than now
C8_NotBeforeScheduledAt ==
    [][\A i \in Ids :
         (calls'[i] > calls[i] /\ i \in Rows) => store[i].scheduled_date <= now]_vars

\* C9: whenever no worker is in the middle of a transition on a row, the row
\* has sent_at set if and only if its status is sent
C9_SentAtIffSent ==
    \A i \in Rows :
        Quiescent(i) => ((store[i].sent_at # NoTime) <=> (store[i].status = "sent"))

\* C10 as stated: a row carries an error_message only when it is failed
C10_ErrorMessageOnlyFailed ==
    \A i \in Rows : store[i].error_message # NoText => store[i].status = "failed"

\* C10 amended: no row that is pending or processing carries an
\* error_message (a sent row may: the Notifier returned an error together
\* with a message id)
C10_NoMessageBeforeOutcome ==
    \A i \in Rows :
        store[i].status \in {"pending", "processing"} => store[i].error_message = NoText

\* a sweep has recorded a Notifier error that came with a message id: the
\* row is sent and carries the error_message
C10_SentWithMessage ==
    \E i \in Rows : \E s \in Sweeps :
        /\ store[i].status = "sent"
        /\ store[i].error_message = MsgDelivered
        /\ store[i].email_id = EmailId
        /\ sw[s].pc = "done" /\ i \in Listed(s) /\ sw[s].successCount >= 1

\* a sweep leaves the step that records the outcome of sendEmail for its
\* current file
Records(s) == sw[s].pc = "update" /\ sw'[s].pc # "update"

C12_ListsExactlyDue ==
    [][\A s \in Sweeps :
         (sw[s].pc = "select" /\ sw'[s].pc # "select" /\ errs' = errs) =>
            /\ Listed(s)' \subseteq Rows
            /\ \A i \in Rows :
                 i \in Listed(s)' <=>
                    (store[i].status = "pending" /\ store[i].scheduled_date <= now)
            /\ sw'[s].processedCount = Cardinality(Listed(s)')]_vars

\* a sweep has listed a pending row scheduled exactly at now, and left out
\* another row: one scheduled later, or a due one that is not pending
C12_ListedAtBoundary ==
    \E s \in Sweeps : \E i, j \in Rows :
        /\ sw[s].pc = "claim" /\ sw[s].idx = 1
        /\ Listed(s) = {i} /\ j # i
        /\ store[i].status = "pending" /\ store[i].scheduled_date = now /\ now > 0
        /\ \/ store[j].status = "pending" /\ store[j].scheduled_date > now
           \/ store[j].status = "sent" /\ store[j].scheduled_date <= now

C15_StoreErrorLeavesPending ==
    [][\A s \in Sweeps :
         ( /\ sw[s].pc \in {"claim", "update", "catch"}
           /\ sw'[s] # sw[s] /\ errs' > errs )
         => /\ Current(s).id \in Rows => store'[Current(s).id].status = "pending"
            /\ sw'[s].pc \notin {"send", "catch"}
            /\ sw'[s].failedCount = sw[s].failedCount
            /\ sw'[s].successCount = sw[s].successCount]_vars

\* C16: the response of a sweep whose select of the due rows returned an
\* error differs from the response of a sweep whose select succeeded and
\* found nothing due
C16_ListingFailureSurfaced ==
    \A s1, s2 \in Sweeps :
        ( /\ sw[s1].pc = "done" /\ sw[s1].storeErr /\ sw[s1].files = << >>
          /\ sw[s2].pc = "done" /\ ~sw[s2].storeErr /\ sw[s2].files = << >> )
        => Response(sw[s1]) # Response(sw[s2])

\* a sweep leaves the loop body of its current file
Leaves(s) == sw[s].pc \in {"update", "catch"} /\ sw'[s] # sw[s]

\* after the loop body of a file, whatever its outcome, the sweep goes on to
\* the claim of the next listed file, and returns only after the last
GoesOn(s) ==
    IF sw[s].idx < Len(sw[s].files)
    THEN /\ sw'[s].pc = "claim"
         /\ sw'[s].idx = sw[s].idx + 1
         /\ sw'[s].files = sw[s].files
    ELSE sw'[s].pc = "return"

C18_EditOnlyWhilePending ==
    [][\A i \in Ids :
         (i \in Rows /\ i \in DOMAIN store' /\ store[i].status # "pending")
         => /\ store'[i].recipient_email = store[i].recipient_email
            /\ store'[i].scheduled_date = store[i].scheduled_date]_vars

\* C19: deleteScheduledFile called for a row that has already been removed
\* completes without error and leaves the table as it was
C19_RemoveIdempotent ==
    [][\A i \in Ids :
         ( /\ i < nextId /\ i \notin Rows
           /\ lastDelete' # lastDelete /\ lastDelete'.id = i )
         => (~lastDelete'.error /\ store' = store)]_vars

\* a sweep of send-scheduled-file takes a step of its loop body on row i
SweepStepOn(i) ==
    \E s \in Sweeps :
        /\ sw[s].pc \in {"claim", "send", "update", "catch"}
        /\ sw'[s] # sw[s]
        /\ Current(s).id = i

\* C20 (under SpecCron): whatever the trigger path, every Notifier invocation
\* for a row and every change of a row's status is a step of the one sweep,
\* processScheduledFiles of send-scheduled-file, on that row
C20_OnlyTheSweepDelivers ==
    [][\A i \in Ids :
         ( \/ calls'[i] > calls[i]
           \/ (i \in Rows /\ i \in DOMAIN store' /\ store'[i].status # store[i].status) )
         => SweepStepOn(i)]_vars

\* C21: a sweep invokes the Notifier for a row only after its own claim on
\* the row has matched; a sweep whose claim matched no row makes no Notifier
\* call for it (stated for the runs in which no store operation returns an
\* error, where it already fails)
C21_NotifyOnlyAfterOwnClaim ==
    [][\A s \in Sweeps :
         (sw[s].pc = "send" /\ sw'[s].pc = "update" /\ errs' = 0)
         => (sw[s].claimed /\ claims[Current(s).id] >= 1)]_vars

\* C22: the writes of sent or failed (with sent_at, error_message, email_id)
\* reach a row only from a sweep whose own claim on the row matched (stated
\* for the runs in which no store operation returns an error, where it
\* already fails)
C22_OutcomeOnlyByClaimWinner ==
    [][\A s \in Sweeps :
         ( /\ sw[s].pc \in {"update", "catch"} /\ sw'[s] # sw[s]
           /\ store' # store /\ errs' = 0 )
         => sw[s].claimed]_vars

\* C23: a row is in processing only while the sweep that claimed it is still
\* in the loop body for it; once that sweep has gone on, the row is sent or
\* failed and is not left in processing
C23_ProcessingIsSettled ==
    \A i \in Rows :
        store[i].status = "processing" =>
            \E s \in Sweeps : PastClaim(s, i) /\ sw[s].claimed

\* C24: the write of the access page changes a row only if the row is still
\* pending at the write: a row that has become processing, sent or failed
\* since the page read it is left as it is
C24_AccessWritesOnlyPending ==
    [][( /\ page.pc = "update" /\ page' # page
         /\ page.id \in Rows
         /\ store[page.id].status # "pending" )
       => store' = store]_vars

\* where the path word access stands in a URL
AccessAt(url) == CHOOSE k \in 1..Len(url) : url[k] = Access

\* C25 (under SpecUrl): the access URL is the base, one slash, access, one
\* slash and the token: exactly one slash stands between the base and
\* access, whether the configured base ends with no, one or several slashes
C25_ExactlyOneSlash ==
    accessUrl # << >> =>
        LET k == AccessAt(accessUrl) IN
          /\ \E j \in 1..Len(accessUrl) : accessUrl[j] = Access
          /\ k >= 2 /\ accessUrl[k - 1] = Slash
          /\ (k >= 3 => accessUrl[k - 2] # Slash)
          /\ k < Len(accessUrl) /\ accessUrl[k + 1] = Slash
          /\ SubSeq(accessUrl, k + 2, Len(accessUrl)) \in Tokens
          /\ \E n \in 0..Len(APP_URL) :
               /\ SubSeq(accessUrl, 1, k - 2) = SubSeq(APP_URL, 1, n)
               /\ \A j \in (n + 1)..Len(APP_URL) : APP_URL[j] = Slash

\* C26: when no row is pending with a scheduled_date that is not later than
\* now, the sweep returns {0, 0, 0} from its select, without invoking the
\* Notifier and without writing to any row
C26_NothingDueNothingDone ==
    [][\A s \in Sweeps :
         ( /\ sw[s].pc = "select" /\ sw'[s].pc # "select" /\ errs' = errs
           /\ \A i \in Rows :
                ~(store[i].status = "pending" /\ store[i].scheduled_date <= now) )
         => /\ sw'[s].pc = "done"
            /\ Response(sw'[s]).processed = 0
            /\ Response(sw'[s]).success = 0
            /\ Response(sw'[s]).failed = 0
            /\ store' = store /\ calls' = calls /\ claims' = claims]_vars

\* a sweep has returned {0, 0, 0} while the table holds a pending row that
\* is not due yet, which is as it was inserted and was never sent
C26_ReturnedWithNothingDue ==
    \E s \in Sweeps : \E i \in Rows :
        /\ sw[s].pc = "done" /\ ~sw[s].storeErr /\ sw[s].files = << >>
        /\ sw[s].processedCount = 0 /\ sw[s].successCount = 0 /\ sw[s].failedCount = 0
        /\ store[i].scheduled_date > now /\ ops = 0
        /\ store[i] = NewRow(i, store[i].recipient_email, store[i].scheduled_date)
        /\ calls[i] = 0 /\ claims[i] = 0

\* C27: no step changes the access_token of a row, and a step that changes
\* the recipient or the scheduled_date of a pending row (the owner's edit)
\* changes nothing else of it: status, access_token, sent_at, error_message
\* and email_id stay as they were
C27_EditChangesOnlySchedule ==
    [][\A i \in Ids :
         (i \in Rows /\ i \in DOMAIN store') =>
            /\ store'[i].access_token = store[i].access_token
            /\ ( /\ store[i].status = "pending"
                 /\ \/ store'[i].recipient_email # store[i].recipient_email
                    \/ store'[i].scheduled_date # store[i].scheduled_date )
               => store'[i] = [store[i] EXCEPT
                                 !.recipient_email = store'[i].recipient_email,
                                 !.scheduled_date = store'[i].scheduled_date]]_vars

\* the owner has changed the recipient of a pending row after a sweep listed
\* it: the row is still pending, with its token and its empty outcome fields
C27_PendingRowEdited ==
    \E s \in Sweeps : \E i \in Rows :
        /\ sw[s].pc = "claim" /\ Current(s).id = i
        /\ Current(s).recipient_email # store[i].recipient_email
        /\ store[i].status = "pending" /\ store[i].access_token = i
        /\ store[i].sent_at = NoTime /\ store[i].error_message = NoText
        /\ store[i].email_id = NoText

\* C28: a sweep returns with processedCount equal to the number of rows its
\* select returned and successCount + failedCount = processedCount, and it
\* counts a row as a success only in a step that leaves the row sent
C28_CountsAddUp ==
    [][\A s \in Sweeps :
         sw'[s] # sw[s] =>
            /\ sw'[s].pc \in {"return", "done"} =>
                 /\ sw'[s].processedCount = Len(sw'[s].files)
                 /\ sw'[s].successCount + sw'[s].failedCount = sw'[s].processedCount
            /\ ( /\ sw[s].pc \in {"claim", "update", "catch"}
                 /\ sw'[s].successCount > sw[s].successCount
                 /\ Current(s).id \in DOMAIN store' )
               => store'[Current(s).id].status = "sent"]_vars

\* C29: a sweep whose claim on a row has matched goes on to call the
\* Notifier with the recipient the row holds at the claim, also when the
\* owner changed it after the sweep listed the row
C29_SendsToStoredRecipient ==
    [][\A s \in Sweeps :
         ( /\ sw[s].pc = "claim" /\ sw'[s].pc = "send" /\ sw'[s].claimed
           /\ Current(s).id \in Rows )
         => To(s) = store[Current(s).id].recipient_email]_vars

\* C30: while the Dashboard has a signed-in user and a loaded file list that
\* holds a pending item past due, and no fetch, initial check or manual
\* trigger is outstanding, the 30-second interval is set and its check,
\* when it fires, finds a pending item past due and so triggers a sweep
C30_PeriodicCheckSeesLoadedList ==
    ( /\ dash.user /\ dash.initialLoadComplete
      /\ dash.fetches = 0 /\ ~dash.timer.set /\ dash.manual = "idle"
      /\ pendingPastDue(dash.files, now) # {} )
    => /\ dash.interval.set
       /\ dash.interval.initialLoadComplete
       /\ pendingPastDue(dash.interval.files, now) # {}

====
